---- MODULE Spec2Model ----
(***************************************************************************)
(* Model of src/main.py: the HTTP handler update_google_sheet and the two  *)
(* lazily initialised module globals sheet_client and sheet.               *)
(*                                                                         *)
(* Spec     : invocations run one after the other; one action is one whole *)
(*            invocation of update_google_sheet.                           *)
(* ConcSpec : invocations of several threads of one process interleave at  *)
(*            the reads and writes of the two globals and at remote calls. *)
(***************************************************************************)
EXTENDS Integers, Sequences, FiniteSets, TLC

\* ------------------------------------------------------------------------
\* Bounds of the model
\* ------------------------------------------------------------------------
MaxStrLen == 2
MaxRow == 2
MaxHandles == 2
NThreads == 2

\* ------------------------------------------------------------------------
\* JSON / Python values.  One record shape for every value so that values of
\* different Python types can be compared: t is the type, n the number (a
\* float is kept in tenths: n = 15 is 1.5), s the characters of a string.
\* ------------------------------------------------------------------------
Val(t, n, s) == [t |-> t, n |-> n, s |-> s]
PyNone == Val("none", 0, <<>>)
Absent == Val("absent", 0, <<>>)
PyBool(b) == Val("bool", IF b THEN 1 ELSE 0, <<>>)
PyIntV(n) == Val("int", n, <<>>)
PyFloat(tenths) == Val("float", tenths, <<>>)
PyInf == Val("inf", 0, <<>>)
PyStr(s) == Val("str", 0, s)

SeqsUpTo(S, n) == UNION {[1..k -> S] : k \in 0..n}

RowChars == {"2", "x", " "}
RowVals ==
  {Absent, PyNone, PyInf}
    \cup {PyIntV(n) : n \in 0..MaxRow}
    \cup {PyFloat(n) : n \in {5, 15}}
    \cup {PyStr(s) : s \in SeqsUpTo(RowChars, MaxStrLen)}

\* the non-null value a field of the payload carries when it carries one:
\* texts, the empty text, and the number 0
SampleValue(field) ==
  CASE field = "appointmentDate" -> PyStr(<<"d">>)
    [] field = "appointmentTime" -> PyStr(<<>>)
    [] field = "callStatus" -> PyIntV(0)
    [] field = "callSummary" -> PyStr(<<"s">>)
    [] field = "email" -> PyStr(<<"e">>)
FieldVals(field) == {Absent, PyNone, SampleValue(field)}

\* ------------------------------------------------------------------------
\* The request
\* ------------------------------------------------------------------------
Fields == {"appointmentDate", "appointmentTime", "callStatus", "callSummary", "email"}
Methods == {"POST", "GET", "OPTIONS", "PUT"}

NoFields == [f \in Fields |-> Absent]
\* request.get_json(silent=True) returned None: no body, or not JSON
NoBody == [json |-> FALSE, nested |-> FALSE, row |-> Absent, f |-> NoFields]
\* a JSON object; nested = the parameters sit under toolInfo.parameters
Bodies == {NoBody} \cup
  [json : {TRUE}, nested : BOOLEAN, row : RowVals,
   f : {g \in [Fields -> UNION {FieldVals(k) : k \in Fields}] :
          \A k \in Fields : g[k] \in FieldVals(k)}]
Requests == [method : {"POST"}, body : Bodies]
              \cup [method : Methods \ {"POST"}, body : {NoBody}]

\* the keys of the top-level JSON object
TopKeys(body) ==
  IF body.nested THEN {"toolInfo"}
  ELSE {k \in Fields : body.f[k] # Absent}
         \cup (IF body.row # Absent THEN {"sheetRowIndex"} ELSE {})

\* DictGet, had the handler unwrapped toolInfo.parameters
DictGet_Unwrap(body, key) ==
  LET v == IF key = "sheetRowIndex" THEN body.row ELSE body.f[key]
  IN IF v = Absent THEN PyNone ELSE v

\* dict.get(key): the value, None when the key is missing
DictGet(body, key) ==
  IF key \notin TopKeys(body) THEN PyNone
  ELSE IF key = "sheetRowIndex" THEN body.row
  ELSE body.f[key]

\* Python truth value
Truthy(v) ==
  CASE v.t = "none" -> FALSE
    [] v.t = "bool" -> v.n = 1
    [] v.t = "int" -> v.n # 0
    [] v.t = "float" -> v.n # 0
    [] v.t = "inf" -> TRUE
    [] v.t = "str" -> Len(v.s) > 0
    [] OTHER -> FALSE

\* ------------------------------------------------------------------------
\* int(x)
\* ------------------------------------------------------------------------
IsSpace(c) == c = " "
IsDigit(c) == c \in {"0", "1", "2", "3", "4", "5", "6", "7", "8", "9"}
DigitVal(c) ==
  CASE c = "0" -> 0 [] c = "1" -> 1 [] c = "2" -> 2 [] c = "3" -> 3
    [] c = "4" -> 4 [] c = "5" -> 5 [] c = "6" -> 6 [] c = "7" -> 7
    [] c = "8" -> 8 [] c = "9" -> 9

RECURSIVE LStrip(_)
LStrip(s) == IF s # <<>> /\ IsSpace(Head(s)) THEN LStrip(Tail(s)) ELSE s
RECURSIVE RStrip(_)
RStrip(s) ==
  IF s # <<>> /\ IsSpace(s[Len(s)]) THEN RStrip(SubSeq(s, 1, Len(s) - 1)) ELSE s
Strip(s) == RStrip(LStrip(s))

RECURSIVE DigitsValue(_, _)
DigitsValue(s, acc) ==
  IF s = <<>> THEN acc ELSE DigitsValue(Tail(s), 10 * acc + DigitVal(Head(s)))

IntOk(n) == [ok |-> TRUE, n |-> n, exc |-> ""]
IntRaise(e) == [ok |-> FALSE, n |-> 0, exc |-> e]

\* int() of a string: surrounding whitespace, an optional sign, digits
IntOfStr(s) ==
  LET body == Strip(s)
      signed == body # <<>> /\ Head(body) \in {"+", "-"}
      digits == IF signed THEN Tail(body) ELSE body
  IN IF digits # <<>> /\ \A i \in 1..Len(digits) : IsDigit(digits[i])
     THEN IntOk(IF signed /\ Head(body) = "-"
                THEN 0 - DigitsValue(digits, 0) ELSE DigitsValue(digits, 0))
     ELSE IntRaise("ValueError")

PyInt(v) ==
  CASE v.t = "int" -> IntOk(v.n)
    [] v.t = "bool" -> IntOk(v.n)
    [] v.t = "float" -> IntOk(v.n \div 10)
    [] v.t = "inf" -> IntRaise("OverflowError")
    [] v.t = "str" -> IntOfStr(v.s)
    [] OTHER -> IntRaise("TypeError")

\* ------------------------------------------------------------------------
\* The spreadsheet connection.  A handle is a positive number, None is 0.
\* ------------------------------------------------------------------------
None == 0

\* the environment of the process: is the variable set (and non-empty)?
Envs == [GCP_SERVICE_ACCOUNT_KEY_JSON : BOOLEAN, SPREADSHEET_ID : BOOLEAN]

\* what the remote side does to the calls of one invocation: authorize
\* raises, open_by_key raises, the write-th update_cell raises (0: none does)
Oracles == [authorize : BOOLEAN, open : BOOLEAN, write : 0..5]

Call(op, ok, h, row, col, val) ==
  [op |-> op, ok |-> ok, h |-> h, row |-> row, col |-> col, val |-> val]
AuthCall(ok, h) == Call("authorize", ok, h, 0, 0, PyNone)
OpenCall(ok, h) == Call("open_by_key", ok, h, 0, 0, PyNone)
WriteCall(ok, h, row, col, val) == Call("update_cell", ok, h, row, col, val)

MSG_NO_KEY == "GCP_SERVICE_ACCOUNT_KEY_JSON environment variable not set."
MSG_NO_ID == "SPREADSHEET_ID environment variable not set."
MSG_AUTH == "authorize failed"
MSG_OPEN == "open_by_key failed"
MSG_WRITE == "update_cell failed"

\* the module globals after the call, the calls made, the exception raised
\* ("" when the function returned)
Conn(sc, sh, calls, exc) ==
  [sheet_client |-> sc, sheet |-> sh, calls |-> calls, exc |-> exc]

\* NeedsInit, had the globals not been tested
NeedsInit_Always(global) == TRUE

\* is the global still None, so that it has to be initialised?
NeedsInit(global) == global = None

get_sheet_client(sc, e, o, fresh) ==
  IF NeedsInit(sc)
  THEN IF ~e.GCP_SERVICE_ACCOUNT_KEY_JSON THEN Conn(sc, None, <<>>, MSG_NO_KEY)
       ELSE IF o.authorize THEN Conn(sc, None, <<AuthCall(FALSE, None)>>, MSG_AUTH)
       ELSE Conn(fresh, None, <<AuthCall(TRUE, fresh)>>, "")
  ELSE Conn(sc, None, <<>>, "")

\* SheetAfterFailedOpen, had sheet been assigned before the call returned
SheetAfterFailedOpen_Cached(sh, fresh) == fresh

\* what a failed open_by_key leaves in the global sheet
SheetAfterFailedOpen(sh, fresh) == sh

get_sheet(sc, sh, e, o, freshClient, freshSheet) ==
  IF NeedsInit(sh)
  THEN IF ~e.SPREADSHEET_ID THEN Conn(sc, sh, <<>>, MSG_NO_ID)
       ELSE LET c == get_sheet_client(sc, e, o, freshClient)
            IN IF c.exc # "" THEN Conn(c.sheet_client, sh, c.calls, c.exc)
               ELSE IF o.open
               THEN Conn(c.sheet_client, SheetAfterFailedOpen(sh, freshSheet),
                         c.calls \o <<OpenCall(FALSE, None)>>, MSG_OPEN)
               ELSE Conn(c.sheet_client, freshSheet,
                         c.calls \o <<OpenCall(TRUE, freshSheet)>>, "")
  ELSE Conn(sc, sh, <<>>, "")

\* ------------------------------------------------------------------------
\* update_google_sheet
\* ------------------------------------------------------------------------
COL_APPOINT_DATE_TIME == 5
COL_APPOINTMENT_TIME == 6
COL_CALL_STATUS == 7
COL_CALL_SUMMARY == 8
COL_EMAIL_ID == 9

\* the payload keys in the order of the if statements that fill updates
FieldOrder ==
  << [field |-> "appointmentDate", col |-> COL_APPOINT_DATE_TIME],
     [field |-> "appointmentTime", col |-> COL_APPOINTMENT_TIME],
     [field |-> "callStatus", col |-> COL_CALL_STATUS],
     [field |-> "callSummary", col |-> COL_CALL_SUMMARY],
     [field |-> "email", col |-> COL_EMAIL_ID] >>

\* IsProvided, had the test been "if value:"
IsProvided_Truthy(v) == Truthy(v)

\* the test that puts a payload value into updates
IsProvided(v) == v # PyNone

\* the dict updates, as the sequence of its items in insertion order
RECURSIVE UpdatesFrom(_, _)
UpdatesFrom(body, i) ==
  IF i > Len(FieldOrder) THEN <<>>
  ELSE LET v == DictGet(body, FieldOrder[i].field)
       IN (IF IsProvided(v) THEN <<[col |-> FieldOrder[i].col, val |-> v]>> ELSE <<>>)
            \o UpdatesFrom(body, i + 1)
Updates(body) == UpdatesFrom(body, 1)

\* WriteLoop, had each update_cell had its own try/except
RECURSIVE WriteLoop_Continue(_, _, _, _, _)
WriteLoop_Continue(updates, i, h, row, failAt) ==
  IF i > Len(updates) THEN <<>>
  ELSE <<WriteCall(i # failAt, h, row, updates[i].col, updates[i].val)>>
         \o WriteLoop_Continue(updates, i + 1, h, row, failAt)

\* the update_cell calls of the loop: the items in order, up to and
\* including the one that raises
RECURSIVE WriteLoop(_, _, _, _, _)
WriteLoop(updates, i, h, row, failAt) ==
  IF i > Len(updates) THEN <<>>
  ELSE IF i = failAt
  THEN <<WriteCall(FALSE, h, row, updates[i].col, updates[i].val)>>
  ELSE <<WriteCall(TRUE, h, row, updates[i].col, updates[i].val)>>
         \o WriteLoop(updates, i + 1, h, row, failAt)

\* a returned (text, status) pair; the handler sets no response header
Returned(status, text, detail) ==
  [kind |-> "return", status |-> status, text |-> text, detail |-> detail,
   headers |-> {}]
\* an exception that leaves the handler
Unhandled(exc) ==
  [kind |-> "raise", status |-> 0, text |-> "", detail |-> exc, headers |-> {}]

\* the response of the except clause of the handler
ErrorResponse(exc) == Returned(500, "Internal Server Error: ", exc)

\* MethodAllowed, had GET been accepted too
MethodAllowed_Get(method) == method \in {"POST", "GET"}

\* the methods that get past line 76
MethodAllowed(method) == method = "POST"

\* MethodNotAllowed, had the handler answered the CORS preflight
MethodNotAllowed_Cors(method) ==
  IF method = "OPTIONS"
  THEN [kind |-> "return", status |-> 204, text |-> "", detail |-> "",
        headers |-> {"Access-Control-Allow-Origin", "Access-Control-Allow-Methods",
                     "Access-Control-Allow-Headers", "Access-Control-Max-Age"}]
  ELSE Returned(405, "Method Not Allowed", "")

\* the answer to a request whose method is not allowed
MethodNotAllowed(method) == Returned(405, "Method Not Allowed", "")

\* NoUpdatesResponse, had an empty update been a client error
NoUpdatesResponse_400 == Returned(400, "No valid updates provided", "")

\* the answer when updates is empty
NoUpdatesResponse == Returned(200, "No valid updates provided", "")

Result(sc, sh, response, calls, exc) ==
  [sheet_client |-> sc, sheet |-> sh, response |-> response,
   calls |-> calls, exc |-> exc]

\* lines 108-156: the try block
TryBlock(body, row, sc, sh, e, o, freshClient, freshSheet) ==
  LET g == get_sheet(sc, sh, e, o, freshClient, freshSheet)
      updates == Updates(body)
      writes == WriteLoop(updates, 1, g.sheet, row, o.write)
      failed == writes # <<>> /\ ~writes[Len(writes)].ok
  IN IF g.exc # ""
     THEN Result(g.sheet_client, g.sheet, ErrorResponse(g.exc), g.calls, g.exc)
     ELSE IF updates = <<>>
     THEN Result(g.sheet_client, g.sheet, NoUpdatesResponse, g.calls, "")
     ELSE IF failed
     THEN Result(g.sheet_client, g.sheet, ErrorResponse(MSG_WRITE),
                 g.calls \o writes, MSG_WRITE)
     ELSE Result(g.sheet_client, g.sheet,
                 Returned(200, "Google Sheet updated successfully", ""),
                 g.calls \o writes, "")

update_google_sheet(req, sc, sh, e, o, freshClient, freshSheet) ==
  LET body == req.body
      sheet_row_index == DictGet(body, "sheetRowIndex")
      r == PyInt(sheet_row_index)
  IN IF ~MethodAllowed(req.method)
     THEN Result(sc, sh, MethodNotAllowed(req.method), <<>>, "")
     ELSE IF ~body.json \/ TopKeys(body) = {}
     THEN Result(sc, sh,
                 Returned(400, "Bad Request: JSON payload missing or invalid", ""),
                 <<>>, "")
     ELSE IF ~Truthy(sheet_row_index)
     THEN Result(sc, sh, Returned(400, "Bad Request: sheetRowIndex is required", ""),
                 <<>>, "")
     ELSE IF ~r.ok /\ r.exc = "ValueError"
     THEN Result(sc, sh,
                 Returned(400, "Bad Request: sheetRowIndex must be an integer", ""),
                 <<>>, "")
     ELSE IF ~r.ok
     THEN Result(sc, sh, Unhandled(r.exc), <<>>, r.exc)
     ELSE TryBlock(body, r.n, sc, sh, e, o, freshClient, freshSheet)

\* does the request get past the validation, to the try block (line 108)?
ReachesTry(req) ==
  /\ MethodAllowed(req.method)
  /\ req.body.json
  /\ TopKeys(req.body) # {}
  /\ Truthy(DictGet(req.body, "sheetRowIndex"))
  /\ PyInt(DictGet(req.body, "sheetRowIndex")).ok

\* ------------------------------------------------------------------------
\* State
\* ------------------------------------------------------------------------
VARIABLES
  sheet_client,   \* the global sheet_client (None or a handle)
  sheet,          \* the global sheet (None or a handle)
  env,            \* the environment variables of the process
  authCount,      \* successful gspread.authorize calls so far
  openCount,      \* successful open_by_key calls so far
  request,        \* the request being answered (NoRequest: none)
  response,       \* its response
  calls,          \* the spreadsheet calls it made, in order
  exc,            \* the exception it raised inside the handler ("": none)
  lastExc,        \* exc of the latest answered request that reached the try
  pc,             \* per thread: where its invocation stands
  treq,           \* per thread: the request it handles
  client,         \* per thread: the local client of get_sheet (line 52)
  worksheet,      \* per thread: the local worksheet of the handler (line 109)
  written,        \* per thread: the update_cell calls that succeeded
  tstatus         \* per thread: the status of its latest response

seqVars == <<request, response, calls, exc, lastExc>>
thrVars == <<pc, treq, client, worksheet, written, tstatus>>
vars == <<sheet_client, sheet, env, authCount, openCount,
          request, response, calls, exc, lastExc,
          pc, treq, client, worksheet, written, tstatus>>

Threads == 1..NThreads

NoRequest == [method |-> "NONE", body |-> NoBody]
NoResponse ==
  [kind |-> "none", status |-> 0, text |-> "", detail |-> "", headers |-> {}]
NoFailure == [authorize |-> FALSE, open |-> FALSE, write |-> 0]

Init ==
  /\ sheet_client = None
  /\ sheet = None
  /\ env \in Envs
  /\ authCount = 0
  /\ openCount = 0
  /\ request = NoRequest
  /\ response = NoResponse
  /\ calls = <<>>
  /\ exc = ""
  /\ lastExc = ""
  /\ pc = [t \in Threads |-> "idle"]
  /\ treq = [t \in Threads |-> NoRequest]
  /\ client = [t \in Threads |-> None]
  /\ worksheet = [t \in Threads |-> None]
  /\ written = [t \in Threads |-> 0]
  /\ tstatus = [t \in Threads |-> 0]

CountOk(cs, op) == Cardinality({i \in 1..Len(cs) : cs[i].op = op /\ cs[i].ok})

\* the remote failures that can strike this request in this state: a call
\* that is not made cannot fail
OraclesFor(req) ==
  IF ~ReachesTry(req) THEN {NoFailure}
  ELSE {o \in Oracles :
          /\ o.write <= Len(Updates(req.body))
          /\ o.authorize => (o.write = 0 /\ ~o.open)
          /\ o.open => o.write = 0}

\* one whole invocation of the handler
Invoke(req, o) ==
  LET res == update_google_sheet(req, sheet_client, sheet, env, o,
                                 authCount + 1, openCount + 1)
  IN /\ authCount + CountOk(res.calls, "authorize") <= MaxHandles
     /\ openCount + CountOk(res.calls, "open_by_key") <= MaxHandles
     /\ sheet_client' = res.sheet_client
     /\ sheet' = res.sheet
     /\ authCount' = authCount + CountOk(res.calls, "authorize")
     /\ openCount' = openCount + CountOk(res.calls, "open_by_key")
     /\ request' = req
     /\ response' = res.response
     /\ calls' = res.calls
     /\ exc' = res.exc
     /\ UNCHANGED <<env, lastExc, thrVars>>

HandleRequest ==
  /\ request = NoRequest
  /\ \E req \in Requests : \E o \in OraclesFor(req) : Invoke(req, o)

\* the response is sent and the request is discarded; the globals stay
Respond ==
  /\ request # NoRequest
  /\ lastExc' = IF ReachesTry(request) THEN exc ELSE lastExc
  /\ request' = NoRequest
  /\ response' = NoResponse
  /\ calls' = <<>>
  /\ exc' = ""
  /\ UNCHANGED <<sheet_client, sheet, env, authCount, openCount, thrVars>>

Next == HandleRequest \/ Respond

Spec == Init /\ [][Next]_vars

\* ------------------------------------------------------------------------
\* Invocations of several threads of one process.  A step is one read or
\* write of a global, or one remote call with the assignment of its result.
\* ------------------------------------------------------------------------
\* the requests the threads send: both reach the try block
ConcRequests ==
  { [method |-> "POST",
     body |-> [json |-> TRUE, nested |-> FALSE, row |-> PyIntV(1),
               f |-> [NoFields EXCEPT !["callStatus"] = SampleValue("callStatus")]]],
    [method |-> "POST",
     body |-> [json |-> TRUE, nested |-> FALSE, row |-> PyStr(<<"2">>),
               f |-> [NoFields EXCEPT !["appointmentDate"] = SampleValue("appointmentDate"),
                                      !["email"] = SampleValue("email")]]] }

Goto(t, label) == pc' = [pc EXCEPT ![t] = label]

\* lines 76-109: the request passes the validation and get_sheet is called
T_Begin(t) ==
  /\ pc[t] = "idle"
  /\ \E req \in ConcRequests :
       /\ ReachesTry(req)
       /\ treq' = [treq EXCEPT ![t] = req]
  /\ written' = [written EXCEPT ![t] = 0]
  /\ client' = [client EXCEPT ![t] = None]
  /\ worksheet' = [worksheet EXCEPT ![t] = None]
  /\ Goto(t, "get_sheet")
  /\ UNCHANGED <<sheet_client, sheet, env, authCount, openCount, seqVars, tstatus>>

\* lines 47-52: the test of sheet, and SPREADSHEET_ID
T_GetSheet(t) ==
  /\ pc[t] = "get_sheet"
  /\ IF NeedsInit(sheet)
     THEN IF ~env.SPREADSHEET_ID THEN Goto(t, "except")
          ELSE Goto(t, "get_sheet_client")
     ELSE Goto(t, "return_sheet")
  /\ UNCHANGED <<sheet_client, sheet, env, authCount, openCount, seqVars,
                 treq, client, worksheet, written, tstatus>>

\* lines 28-33: the test of sheet_client, and the key
T_GetSheetClient(t) ==
  /\ pc[t] = "get_sheet_client"
  /\ IF NeedsInit(sheet_client)
     THEN IF ~env.GCP_SERVICE_ACCOUNT_KEY_JSON THEN Goto(t, "except")
          ELSE Goto(t, "authorize")
     ELSE Goto(t, "return_client")
  /\ UNCHANGED <<sheet_client, sheet, env, authCount, openCount, seqVars,
                 treq, client, worksheet, written, tstatus>>

\* lines 35-41: gspread.authorize and the assignment of sheet_client
T_Authorize(t) ==
  /\ pc[t] = "authorize"
  /\ \/ /\ sheet_client' = authCount + 1
        /\ authCount' = authCount + 1
        /\ Goto(t, "return_client")
     \/ /\ UNCHANGED <<sheet_client, authCount>>
        /\ Goto(t, "except")
  /\ UNCHANGED <<sheet, env, openCount, seqVars,
                 treq, client, worksheet, written, tstatus>>

\* lines 42, 52: return sheet_client
T_ReturnClient(t) ==
  /\ pc[t] = "return_client"
  /\ client' = [client EXCEPT ![t] = sheet_client]
  /\ Goto(t, "open_by_key")
  /\ UNCHANGED <<sheet_client, sheet, env, authCount, openCount, seqVars,
                 treq, worksheet, written, tstatus>>

\* lines 53-57: client.open_by_key(...).sheet1 and the assignment of sheet
T_OpenByKey(t) ==
  /\ pc[t] = "open_by_key"
  /\ \/ /\ sheet' = openCount + 1
        /\ openCount' = openCount + 1
        /\ Goto(t, "return_sheet")
     \/ /\ UNCHANGED <<sheet, openCount>>
        /\ Goto(t, "except")
  /\ UNCHANGED <<sheet_client, env, authCount, seqVars,
                 treq, client, worksheet, written, tstatus>>

\* lines 58, 109: return sheet
T_ReturnSheet(t) ==
  /\ pc[t] = "return_sheet"
  /\ worksheet' = [worksheet EXCEPT ![t] = sheet]
  /\ Goto(t, "update")
  /\ UNCHANGED <<sheet_client, sheet, env, authCount, openCount, seqVars,
                 treq, client, written, tstatus>>

\* lines 146-149: one update_cell of the loop
T_UpdateCell(t) ==
  /\ pc[t] = "update"
  /\ written[t] < Len(Updates(treq[t].body))
  /\ \/ /\ written' = [written EXCEPT ![t] = written[t] + 1]
        /\ UNCHANGED pc
     \/ /\ UNCHANGED written
        /\ Goto(t, "except")
  /\ UNCHANGED <<sheet_client, sheet, env, authCount, openCount, seqVars,
                 treq, client, worksheet, tstatus>>

\* lines 141-143, 151-152, 154-156: the response
T_Return(t) ==
  /\ \/ /\ pc[t] = "update"
        /\ written[t] = Len(Updates(treq[t].body))
        /\ tstatus' = [tstatus EXCEPT ![t] = 200]
     \/ /\ pc[t] = "except"
        /\ tstatus' = [tstatus EXCEPT ![t] = ErrorResponse("").status]
  /\ Goto(t, "idle")
  /\ UNCHANGED <<sheet_client, sheet, env, authCount, openCount, seqVars,
                 treq, client, worksheet, written>>

ConcNext ==
  \E t \in Threads :
    \/ T_Begin(t)
    \/ T_GetSheet(t)
    \/ T_GetSheetClient(t)
    \/ T_Authorize(t)
    \/ T_ReturnClient(t)
    \/ T_OpenByKey(t)
    \/ T_ReturnSheet(t)
    \/ T_UpdateCell(t)
    \/ T_Return(t)

ConcSpec == Init /\ [][ConcNext]_vars

\* ------------------------------------------------------------------------
\* Vocabulary of the properties
\* ------------------------------------------------------------------------
\* a request has been handled and its response is not yet discarded
Answered == request # NoRequest
\* this step is one invocation of the handler
InvokeStep == request = NoRequest /\ request' # NoRequest

MappedCols == {FieldOrder[i].col : i \in 1..Len(FieldOrder)}
CorsHeaders ==
  {"Access-Control-Allow-Origin", "Access-Control-Allow-Methods",
   "Access-Control-Allow-Headers", "Access-Control-Max-Age"}

IsWrite(c) == c.op = "update_cell"
WritesOf(cs) == SelectSeq(cs, IsWrite)
\* the update_cell calls that write v into (r, c)
WritesTo(cs, r, c, v) ==
  {i \in 1..Len(cs) : IsWrite(cs[i]) /\ cs[i].row = r /\ cs[i].col = c /\ cs[i].val = v}
WritesToCol(cs, c) == {i \in 1..Len(cs) : IsWrite(cs[i]) /\ cs[i].col = c}

\* the value the flat payload carries for a mapped field (None: absent or null)
FlatValue(body, field) == IF body.f[field] = Absent THEN PyNone ELSE body.f[field]

\* the writes of the request are exactly the non-null mapped fields, at row r
SparseWrites(cs, body, r) ==
  /\ \A i \in 1..Len(FieldOrder) :
       LET v == FlatValue(body, FieldOrder[i].field)
       IN IF v # PyNone
          THEN /\ Cardinality(WritesTo(cs, r, FieldOrder[i].col, v)) = 1
               /\ Cardinality(WritesToCol(cs, FieldOrder[i].col)) = 1
          ELSE WritesToCol(cs, FieldOrder[i].col) = {}
  /\ \A i \in 1..Len(cs) :
       IsWrite(cs[i]) => cs[i].row = r /\ cs[i].col \in MappedCols

\* a flat JSON object whose sheetRowIndex int() converts
FlatIntRow(req) ==
  /\ req.method = "POST"
  /\ req.body.json
  /\ ~req.body.nested
  /\ req.body.row \notin {Absent, PyNone}
  /\ PyInt(req.body.row).ok

\* C1 as stated: a POST whose sheetRowIndex parses to an integer r, with no
\* remote call failing, issues exactly one update_cell(r, c, v) per mapped
\* field that is present and non-null, and no other write.
C1_Original ==
  (Answered /\ FlatIntRow(request) /\ exc = "")
    => SparseWrites(calls, request.body, PyInt(request.body.row).n)

\* C1 amended: the same, for a sheetRowIndex that is also truthy (not 0, 0.0,
\* false or ""); a falsy sheetRowIndex is answered 400 with no write.
C1_SparseUpdate ==
  /\ (Answered /\ FlatIntRow(request) /\ Truthy(request.body.row) /\ exc = "")
       => /\ SparseWrites(calls, request.body, PyInt(request.body.row).n)
          /\ response.status = 200
  /\ (Answered /\ FlatIntRow(request) /\ ~Truthy(request.body.row))
       => response.status = 400 /\ calls = <<>>

C1_Witness ==
  /\ Answered /\ FlatIntRow(request) /\ Truthy(request.body.row) /\ exc = ""
  /\ request.body.f["appointmentDate"] = Absent
  /\ request.body.f["appointmentTime"] = PyStr(<<>>)
  /\ request.body.f["callStatus"] = PyIntV(0)
  /\ request.body.f["callSummary"] = PyNone
  /\ Len(WritesOf(calls)) = 3
  /\ response.status = 200

\* C2 as stated: a POST with a non-empty JSON body whose sheetRowIndex is
\* absent, null or a scalar that int() does not convert is answered with
\* HTTP 400 and makes no remote write.
C2_Original ==
  (/\ Answered /\ request.method = "POST" /\ request.body.json
   /\ TopKeys(request.body) # {} /\ ~request.body.nested
   /\ (request.body.row \in {Absent, PyNone} \/ ~PyInt(request.body.row).ok))
    => /\ response.kind = "return"
       /\ response.status = 400
       /\ WritesOf(calls) = <<>>

\* C3: when a spreadsheet call raises, the handler returns HTTP 500 with the
\* exception's message, the failing call is the last call of the invocation
\* and is made once, and the writes that succeeded are the items of updates
\* that precede the failing one, in the order of the mapping.
C3_AbortOnFailure ==
  (Answered /\ \E i \in 1..Len(calls) : ~calls[i].ok)
    => LET n == Len(calls)
           w == WritesOf(calls)
           u == Updates(request.body)
           okw == SelectSeq(w, LAMBDA c : c.ok)
       IN /\ response.kind = "return"
          /\ response.status = 500
          /\ response.text = "Internal Server Error: "
          /\ response.detail = exc /\ exc # ""
          /\ \A i \in 1..(n - 1) :
               calls[i].ok /\ <<calls[i].op, calls[i].col>> # <<calls[n].op, calls[n].col>>
          /\ Len(okw) <= Len(u)
          /\ \A i \in 1..Len(okw) :
               /\ okw[i].col = u[i].col /\ okw[i].val = u[i].val
               /\ okw[i].row = PyInt(DictGet(request.body, "sheetRowIndex")).n
          /\ IsWrite(calls[n]) =>
               /\ Len(okw) < Len(u)
               /\ calls[n].col = u[Len(okw) + 1].col
          /\ ~IsWrite(calls[n]) => w = <<>>

C3_Witness ==
  /\ Answered
  /\ Len(calls) = 5 /\ calls[1].op = "authorize" /\ ~calls[5].ok
  /\ calls[5].col = COL_CALL_SUMMARY
  /\ Len(Updates(request.body)) = 4
  /\ response.status = 500

\* C4 as stated: an OPTIONS request makes no spreadsheet call and is answered
\* 204 with the four CORS headers.
C4_Original ==
  (Answered /\ request.method = "OPTIONS")
    => /\ calls = <<>>
       /\ response.status = 204
       /\ CorsHeaders \subseteq response.headers

\* C4 amended: an OPTIONS request makes no spreadsheet call and is answered
\* like every other non-POST method: 405 'Method Not Allowed', without any
\* CORS header.
C4_OptionsRejected ==
  (Answered /\ request.method = "OPTIONS")
    => /\ calls = <<>>
       /\ response.kind = "return"
       /\ response.status = 405
       /\ response.text = "Method Not Allowed"
       /\ response.headers \cap CorsHeaders = {}

C4_Witness ==
  Answered /\ request.method = "OPTIONS" /\ response.status = 405 /\ sheet # None

\* the flat request that carries the parameters of a nested one
FlatOf(req) == [req EXCEPT !.body.nested = FALSE]

\* C5 as stated: a POST that nests P under toolInfo.parameters gets the
\* response and makes the cell writes that the flat POST P gets and makes
\* (in the same state, under some behaviour of the remote side).
C5_Original ==
  [][(InvokeStep /\ request'.method = "POST" /\ request'.body.json
        /\ request'.body.nested)
      => \E o \in Oracles :
           LET flat == update_google_sheet(FlatOf(request'), sheet_client, sheet,
                                           env, o, authCount + 1, openCount + 1)
           IN /\ flat.response = response'
              /\ WritesOf(flat.calls) = WritesOf(calls')]_vars

\* C5 amended: the handler does not unwrap toolInfo.parameters; a POST that
\* nests P there is answered 400 'sheetRowIndex is required' with no remote
\* call, whatever P is.
C5_NoUnwrap ==
  (Answered /\ request.method = "POST" /\ request.body.json /\ request.body.nested)
    => /\ response = Returned(400, "Bad Request: sheetRowIndex is required", "")
       /\ calls = <<>>

C5_Witness ==
  /\ Answered /\ request.body.json /\ request.body.nested
  /\ ReachesTry(FlatOf(request))
  /\ Updates(FlatOf(request).body) # <<>>
  /\ response.status = 400

\* C6 as stated: a POST with a valid integer sheetRowIndex and no mapped
\* field present and non-null is answered 200 with no cell write, whatever
\* the state of the connection.
C6_Original ==
  (Answered /\ ReachesTry(request) /\ Updates(request.body) = <<>>)
    => response.status = 200 /\ WritesOf(calls) = <<>>

\* C6 amended: such a POST makes no cell write; it is answered 200 when
\* get_sheet returns (the handle is cached, or is opened now), and 500 when
\* get_sheet raises, because the handler calls get_sheet before it looks at
\* the fields.
C6_NoOpUpdate ==
  (Answered /\ ReachesTry(request) /\ Updates(request.body) = <<>>)
    => /\ WritesOf(calls) = <<>>
       /\ response.kind = "return"
       /\ exc = "" => (response.status = 200 /\ sheet # None)
       /\ exc # "" => (response.status = 500 /\ sheet = None)

C6_Witness ==
  /\ Answered /\ ReachesTry(request) /\ Updates(request.body) = <<>>
  /\ request.body.f["email"] = PyNone
  /\ response.status = 200
  /\ Len(calls) = 2

\* C7: a request whose method is not POST is answered 405, makes no remote
\* call and leaves sheet_client and sheet as they were.
C7_MethodNotAllowed ==
  [][(InvokeStep /\ request'.method # "POST")
      => /\ response'.kind = "return"
         /\ response'.status = 405
         /\ calls' = <<>>
         /\ sheet_client' = sheet_client
         /\ sheet' = sheet]_vars

C7_Witness ==
  Answered /\ request.method = "GET" /\ response.status = 405 /\ sheet_client # None

\* C8: over invocations that do not overlap, authorize succeeds at most once
\* and open_by_key at most once; once sheet is cached it and sheet_client
\* never change, and every later invocation makes no authorize or
\* open_by_key call and writes through the cached handle.
C8_CreateOnce ==
  [][/\ authCount' <= 1
     /\ openCount' <= 1
     /\ sheet # None =>
          /\ sheet' = sheet
          /\ sheet_client' = sheet_client
          /\ InvokeStep =>
               \A i \in 1..Len(calls') :
                 IsWrite(calls'[i]) /\ calls'[i].h = sheet]_vars

C8_Witness ==
  /\ Answered
  /\ lastExc = MSG_WRITE
  /\ authCount = 1 /\ openCount = 1
  /\ response.status = 200
  /\ Len(calls) = 2 /\ calls[1].h = sheet /\ calls[2].h = sheet

\* C10: a failed initialisation is not cached.  An invocation in which
\* authentication fails leaves sheet_client and sheet unset; one in which
\* open_by_key fails leaves sheet_client set and sheet unset; both are
\* answered 500 without a cell write.  The next invocation that reaches the
\* try block makes exactly the calls that have not succeeded yet (authorize
\* and open_by_key, respectively open_by_key alone) and, when they succeed,
\* makes its writes and is answered 200.
C10_FailedInitNotCached ==
  [][(InvokeStep /\ ReachesTry(request'))
      => LET u == Updates(request'.body)
             w == WritesOf(calls')
             done == /\ Len(w) = Len(u)
                     /\ \A i \in 1..Len(w) : w[i].ok /\ w[i].col = u[i].col
                     /\ response'.status = 200
         IN /\ exc' \in {MSG_AUTH, MSG_NO_KEY} =>
                 /\ sheet_client' = None /\ sheet' = None
                 /\ response'.status = 500 /\ w = <<>>
            /\ exc' = MSG_OPEN =>
                 /\ sheet_client' # None /\ sheet' = None
                 /\ response'.status = 500 /\ w = <<>>
            /\ lastExc = MSG_AUTH =>
                 /\ calls' # <<>> /\ calls'[1].op = "authorize"
                 /\ calls'[1].ok => (Len(calls') >= 2 /\ calls'[2].op = "open_by_key")
                 /\ exc' = "" =>
                      /\ calls'[1].ok /\ calls'[2].ok
                      /\ Len(calls') = 2 + Len(w)
                      /\ done
            /\ lastExc = MSG_OPEN =>
                 /\ calls' # <<>> /\ calls'[1].op = "open_by_key"
                 /\ \A i \in 1..Len(calls') : calls'[i].op # "authorize"
                 /\ exc' = "" =>
                      /\ calls'[1].ok
                      /\ Len(calls') = 1 + Len(w)
                      /\ done]_vars

C10_Witness ==
  /\ Answered /\ lastExc = MSG_OPEN
  /\ response.status = 200
  /\ Len(calls) = 3 /\ calls[1].op = "open_by_key"
  /\ sheet # None

\* C9 as stated: under every interleaving of concurrent invocations, once
\* sheet_client (respectively sheet) holds a handle it is never assigned
\* again.
C9_Original ==
  [][/\ sheet_client # None => sheet_client' = sheet_client
     /\ sheet # None => sheet' = sheet]_vars

====
